---- MODULE Spec2Model ----
(***************************************************************************)
(* Model of laerson/mancala: the rule engine (engine.Server.Move) and the  *)
(* games service (games.Server.Create / games.Server.Move) over its Redis  *)
(* storage and event publisher.                                            *)
(*                                                                         *)
(* The specifications of the module:                                       *)
(*   SpecEngine  a game played sequentially through the rule engine,       *)
(*               starting from NewGame's board (optionally after a fixed   *)
(*               opening line replayed through the engine);                *)
(*   Spec        the games service handling concurrent Move requests for   *)
(*               one game, each request split at its storage accesses and  *)
(*               event publications;                                       *)
(*   SpecRequest the rule engine called once or twice with one request of  *)
(*               any shape;                                                *)
(*   SpecCreate  the games service handling Create requests;               *)
(*   SpecNotify  the notifications service consuming the event stream;     *)
(*   SpecQueue   the matchmaking PlayerQueue.                              *)
(***************************************************************************)
EXTENDS Integers, Sequences, FiniteSets, TLC

VARIABLES
    gs,        \* SpecEngine: the GameState held by the caller between moves
    over,      \* SpecEngine: the last accepted result had IsFinished
    moves,     \* SpecEngine: accepted moves played after the opening
    call,      \* SpecEngine: the last engine call (request, steps, response)
    storage,   \* Spec: the Redis keyspace, game id -> stored Game
    pc,        \* Spec: per request handler, its position in Server.Move
    loc,       \* Spec: per request handler, the locals of Server.Move
    stream,    \* Spec: events appended to the Redis stream, in order
    reply,     \* Spec: the response sent by the last step, if it sent one
    hist,      \* Spec: bookkeeping about storage versions and finished calls
    notif,     \* SpecNotify: the notifications service (clients, tracked games)
    mm         \* SpecQueue: the matchmaking PlayerQueue

vars == <<gs, over, moves, call, storage, pc, loc, stream, reply, hist, notif, mm>>

engineVars == <<gs, over, moves, call>>
gamesVars == <<storage, pc, loc, stream, reply, hist>>
serviceVars == <<notif, mm>>

-----------------------------------------------------------------------------
(* Bounds *)

\* accepted moves explored after the opening line (SpecEngine)
MaxMoves == 6

\* pit indices a caller may submit: 0..13 are on the board, 14 is off it
MaxPit == 14

\* request handlers (goroutines of the gRPC server) running at the same time
MaxHandlers == 2

\* Move requests received in one behaviour (Spec)
MaxCalls == 3

\* the longest board of an engine request
MaxBoardLen == 15

\* events published to the stream in one behaviour (SpecNotify)
MaxEvents == 4

\* Enqueue calls in one behaviour (SpecQueue)
MaxEnqueues == 5

\* notification streams opened in one behaviour (SpecNotify)
MaxStreams == 3

-----------------------------------------------------------------------------
(* proto/engine enums, as the names the Go code uses *)

Players == {"PLAYER_ONE", "PLAYER_TWO"}

\* a uint32 is kept as its two 16-bit halves, value = hi * Word + lo
Word == 65536

\* uint32 subtraction: Go wraps around modulo 2^32
Sub32(a, b) ==
    LET d == a - b
    IN [hi |-> (d \div Word) % Word, lo |-> d % Word]

\* indexing a slice with a uint32: in range or a runtime panic
InRange(idx, board) == idx.hi = 0 /\ idx.lo \in DOMAIN board

Pits(board) == DOMAIN board

LenPits(board) == Cardinality(DOMAIN board)

SumPits(board, S) ==
    LET RECURSIVE Sum(_)
        Sum(T) == IF T = {} THEN 0
                  ELSE LET i == CHOOSE j \in T : TRUE
                       IN board[i] + Sum(T \ {i})
    IN Sum(S)

-----------------------------------------------------------------------------
(* internal/engine: the rule engine *)

errInvalidBoard == "board must have exactly 14 pits"
errInvalidPitIndex == "invalid pit index for current player"
errEmptyPit == "pit cannot be empty"

\* variant: player one may also play the store at index 6
isPlayablePit_StoreSixPlayable(p, player) ==
    \/ (p <= 6) /\ (player = "PLAYER_ONE")
    \/ (p >= 7 /\ p <= 12) /\ (player = "PLAYER_TWO")

isPlayablePit(p, player) ==
    \/ (p <= 5) /\ (player = "PLAYER_ONE")
    \/ (p >= 7 /\ p <= 12) /\ (player = "PLAYER_TWO")

\* variant: a pit that is not the mover's is reported as an empty pit
validateMoveRequest_EmptyForForeignPit(req) ==
    IF LenPits(req.board) # 14 THEN errInvalidBoard
    ELSE IF ~isPlayablePit(req.pitIndex, req.player) THEN errEmptyPit
    ELSE IF req.board[req.pitIndex] = 0 THEN errEmptyPit
    ELSE ""

\* "" stands for the nil error
validateMoveRequest(req) ==
    IF LenPits(req.board) # 14 THEN errInvalidBoard
    ELSE IF ~isPlayablePit(req.pitIndex, req.player) THEN errInvalidPitIndex
    ELSE IF req.board[req.pitIndex] = 0 THEN errEmptyPit
    ELSE ""

\* variant: no store is skipped
NextPit_NoSkip(pitIndex, player) == (pitIndex + 1) % 14

\* the index the sowing loop deposits on after pitIndex
NextPit(pitIndex, player) ==
    LET p == (pitIndex + 1) % 14
    IN IF \/ player = "PLAYER_ONE" /\ p = 13
          \/ player = "PLAYER_TWO" /\ p = 6
       THEN (p + 1) % 14
       ELSE p

\* the distribution loop: for seeds > 0 { ... }
RECURSIVE Sow(_, _, _, _)
Sow(board, player, pitIndex, seeds) ==
    IF seeds = 0 THEN [board |-> board, pitIndex |-> pitIndex]
    ELSE LET p == NextPit(pitIndex, player)
         IN Sow([board EXCEPT ![p] = @ + 1], player, p, seeds - 1)

\* the pit whose contents a capture by player is added to
CaptureTarget(player) == IF player = "PLAYER_ONE" THEN 6 ELSE 7

\* variant: the landing pit may be on either side
Capture_AnySide(board, player, pitIndex) ==
    LET idx == Sub32(12, pitIndex)
        opp == idx.lo
    IN IF board[pitIndex] # 1 THEN [panic |-> FALSE, captured |-> FALSE, board |-> board]
       ELSE IF ~InRange(idx, board) THEN [panic |-> TRUE, captured |-> FALSE, board |-> board]
       ELSE IF board[opp] > 0
       THEN LET b1 == [board EXCEPT ![CaptureTarget(player)] = @ + 1 + board[opp]]
                b2 == [b1 EXCEPT ![opp] = 0]
                b3 == [b2 EXCEPT ![pitIndex] = 0]
            IN [panic |-> FALSE, captured |-> TRUE, board |-> b3]
       ELSE [panic |-> FALSE, captured |-> FALSE, board |-> board]

\* "Check Capture": the condition is evaluated left to right, and
\* board[12-pitIndex] is indexed with uint32 arithmetic
Capture(board, player, pitIndex) ==
    LET idx == Sub32(12, pitIndex)
        opp == idx.lo
    IN IF board[pitIndex] # 1 THEN [panic |-> FALSE, captured |-> FALSE, board |-> board]
       ELSE IF ~InRange(idx, board) THEN [panic |-> TRUE, captured |-> FALSE, board |-> board]
       ELSE IF board[opp] > 0 /\ isPlayablePit(pitIndex, player)
       THEN LET b1 == [board EXCEPT ![CaptureTarget(player)] = @ + 1 + board[opp]]
                b2 == [b1 EXCEPT ![opp] = 0]
                b3 == [b2 EXCEPT ![pitIndex] = 0]
            IN [panic |-> FALSE, captured |-> TRUE, board |-> b3]
       ELSE [panic |-> FALSE, captured |-> FALSE, board |-> board]

OwnPits(player) == IF player = "PLAYER_ONE" THEN 0..5 ELSE 7..12

OtherPits(player) == IF player = "PLAYER_ONE" THEN 7..12 ELSE 0..5

OtherStore(player) == IF player = "PLAYER_ONE" THEN 13 ELSE 6

\* "Check if the game is finished": only the mover's side is inspected
isFinished(board, player) == \A i \in OwnPits(player) : board[i] = 0

\* variant: the remaining seeds go to the mover's store
Sweep_IntoMoverStore(board, player) ==
    [i \in Pits(board) |->
        IF i \in OtherPits(player) THEN 0
        ELSE IF i \notin OwnPits(player) /\ i # OtherStore(player)
             THEN board[i] + SumPits(board, OtherPits(player))
             ELSE board[i]]

\* "Move remaining seeds to store"
Sweep(board, player) ==
    [i \in Pits(board) |->
        IF i \in OtherPits(player) THEN 0
        ELSE IF i = OtherStore(player)
             THEN board[i] + SumPits(board, OtherPits(player))
             ELSE board[i]]

\* variant: the larger store loses
GetWinner_Swapped(board) ==
    IF board[6] > board[13] THEN "WINNER_PLAYER_TWO"
    ELSE IF board[13] > board[6] THEN "WINNER_PLAYER_ONE"
    ELSE "DRAW"

\* "Get Winner"
GetWinner(board) ==
    IF board[6] > board[13] THEN "WINNER_PLAYER_ONE"
    ELSE IF board[13] > board[6] THEN "WINNER_PLAYER_TWO"
    ELSE "DRAW"

\* variant: only store 6 grants another turn
repeatTurn_OnlyStoreSix(pitIndex) == pitIndex = 6

repeatTurn(pitIndex) == pitIndex = 6 \/ pitIndex = 13

OtherPlayer(player) == IF player = "PLAYER_ONE" THEN "PLAYER_TWO" ELSE "PLAYER_ONE"

errResp(msg) == [kind |-> "Error", message |-> msg]

\* Server.Move with the values of its steps kept: the validation error, the
\* board and index after sowing, the board after the capture step, and the
\* response ("panic" when a slice index is out of range)
MoveSteps(req) ==
    LET err == validateMoveRequest(req)
    IN IF err # ""
       THEN [err |-> err, sown |-> req.board, last |-> req.pitIndex,
             captured |-> FALSE, afterCapture |-> req.board,
             resp |-> errResp(err)]
       ELSE
        LET seeds == req.board[req.pitIndex]
            sown == Sow([req.board EXCEPT ![req.pitIndex] = 0], req.player, req.pitIndex, seeds)
            cap == Capture(sown.board, req.player, sown.pitIndex)
        IN IF cap.panic
           THEN [err |-> "", sown |-> sown.board, last |-> sown.pitIndex,
                 captured |-> FALSE, afterCapture |-> sown.board,
                 resp |-> [kind |-> "panic"]]
           ELSE
            LET fin == isFinished(cap.board, req.player)
                final == IF fin THEN Sweep(cap.board, req.player) ELSE cap.board
                winner == IF fin THEN GetWinner(final) ELSE "NO_WINNER"
                next == IF repeatTurn(sown.pitIndex) THEN req.player
                        ELSE OtherPlayer(req.player)
            IN [err |-> "", sown |-> sown.board, last |-> sown.pitIndex,
                captured |-> cap.captured, afterCapture |-> cap.board,
                resp |-> [kind |-> "MoveResult", board |-> final,
                          player |-> next, isFinished |-> fin, winner |-> winner]]

Move(req) == MoveSteps(req).resp

-----------------------------------------------------------------------------
(* internal/games/models.go *)

initialBoard ==
    [i \in 0..13 |-> IF i = 6 \/ i = 13 THEN 0 ELSE 4]

\* the GameState of NewGame
NewGameState == [board |-> initialBoard, player |-> "PLAYER_ONE"]

\* the state a game is in after the pits of line were submitted one after
\* the other, each to the engine with the state the previous one returned
RECURSIVE Replay(_, _)
Replay(state, line) ==
    IF line = <<>> THEN state
    ELSE LET r == Move([board |-> state.board, player |-> state.player,
                        pitIndex |-> Head(line)])
         IN IF r.kind = "MoveResult"
            THEN Replay([board |-> r.board, player |-> r.player], Tail(line))
            ELSE Replay(state, Tail(line))

\* opening lines: none (a new game), a line two moves short of a move that
\* ends the game, and a line one move short of a capture that empties the
\* opponent's side
TerminalLine == <<0, 8, 1, 2, 8, 3, 8, 4>>

EmptySideLine == <<5, 9, 1, 8, 10, 0, 1, 9, 4, 9, 5>>

Openings == {<<>>, TerminalLine, EmptySideLine}

-----------------------------------------------------------------------------
(* SpecEngine: one game played move by move through the engine *)

\* no engine call made yet
NoCall == [made |-> FALSE]

\* the notifications service and the matchmaking queue are not part of the
\* run
IdleServices ==
    /\ notif = <<>>
    /\ mm = <<>>

IdleGames ==
    /\ storage = <<>>
    /\ pc = <<>>
    /\ loc = <<>>
    /\ stream = <<>>
    /\ reply = <<>>
    /\ hist = <<>>

InitEngine ==
    /\ \E line \in Openings : gs = Replay(NewGameState, line)
    /\ over = FALSE
    /\ moves = 0
    /\ call = NoCall
    /\ IdleGames
    /\ IdleServices

\* the holder of the game state submits pitIndex for the current player and
\* keeps the returned state when the move is accepted
EngineMove(pitIndex) ==
    /\ ~over
    /\ moves < MaxMoves
    /\ LET req == [board |-> gs.board, player |-> gs.player, pitIndex |-> pitIndex]
           steps == MoveSteps(req)
       IN /\ call' = [made |-> TRUE, req |-> req, steps |-> steps]
          /\ IF steps.resp.kind = "MoveResult"
             THEN /\ gs' = [board |-> steps.resp.board, player |-> steps.resp.player]
                  /\ over' = steps.resp.isFinished
                  /\ moves' = moves + 1
             ELSE UNCHANGED <<gs, over, moves>>
    /\ UNCHANGED <<gamesVars, serviceVars>>

NextEngine == \E pitIndex \in 0..MaxPit : EngineMove(pitIndex)

SpecEngine == InitEngine /\ [][NextEngine]_vars

\* the last engine call returned a move result
Accepted == call.made /\ call.steps.resp.kind = "MoveResult"

OwnStore(player) == IF player = "PLAYER_ONE" THEN 6 ELSE 13

-----------------------------------------------------------------------------
(* Claims about the rule engine, checked under SpecEngine *)

\* C1: every board reached from the initial board by accepted moves holds
\* 48 counters in its 14 pits (captures and final sweeps included).
C1_CounterConservation == SumPits(gs.board, 0..13) = 48

\* C2: the engine's Move answers every request on a reachable board with a
\* move result or an in-band violation; it never panics on an index outside
\* the board.
C2_NeverPanics == call.made => call.steps.resp.kind \in {"MoveResult", "Error"}

\* the sowing of the last accepted call ended in an own pit that now holds
\* one counter, opposite a non-empty pit
CaptureCase ==
    /\ Accepted
    /\ call.steps.last \in OwnPits(call.req.player)
    /\ call.steps.sown[call.steps.last] = 1
    /\ call.steps.sown[12 - call.steps.last] > 0

\* C4: when sowing ends in an own pit holding exactly one counter opposite a
\* non-empty pit, the mover's own store gains 1 plus the opposite pit's
\* contents, the landing pit and the opposite pit are zero, and no other pit
\* is changed by the capture step.
C4_CaptureIntoOwnStore ==
    CaptureCase =>
        LET last == call.steps.last
            sown == call.steps.sown
            store == OwnStore(call.req.player)
        IN call.steps.afterCapture =
               [i \in 0..13 |->
                   IF i = store THEN sown[store] + 1 + sown[12 - last]
                   ELSE IF i = last \/ i = 12 - last THEN 0
                   ELSE sown[i]]

\* C5: in every accepted non-terminal move the resulting mover is the mover
\* exactly when the last counter was sown into the mover's own store, and
\* the other player otherwise.
C5_ExtraTurn ==
    (Accepted /\ ~call.steps.resp.isFinished) =>
        /\ (call.steps.resp.player = call.req.player)
               <=> (call.steps.last = OwnStore(call.req.player))
        /\ (call.steps.resp.player # call.req.player)
               => (call.steps.resp.player = OtherPlayer(call.req.player))

\* player two played again after sowing the last counter into store 13
C5_Witness ==
    /\ Accepted
    /\ ~call.steps.resp.isFinished
    /\ call.req.player = "PLAYER_TWO"
    /\ call.steps.last = 13
    /\ call.steps.resp.player = "PLAYER_TWO"

\* C6: an accepted move is terminal exactly when the mover's own six pits
\* are all zero after capture processing; then the other side's counters
\* have been added to the other side's store and all twelve playing pits
\* are zero in the result.
C6_Termination ==
    Accepted =>
        LET mover == call.req.player
            b == call.steps.afterCapture
            r == call.steps.resp
        IN /\ r.isFinished <=> (\A i \in OwnPits(mover) : b[i] = 0)
           /\ r.isFinished =>
                /\ r.board[OtherStore(mover)] =
                       b[OtherStore(mover)] + SumPits(b, OtherPits(mover))
                /\ \A i \in (0..5) \cup (7..12) : r.board[i] = 0

\* a terminal move that swept counters off the other side
C6_Witness ==
    /\ Accepted
    /\ call.steps.resp.isFinished
    /\ SumPits(call.steps.afterCapture, OtherPits(call.req.player)) > 0

\* C7: any accepted move after which either player's six pits are all zero
\* yields a finished result.
C7_EndsWhenOneSideEmpty ==
    Accepted =>
        LET r == call.steps.resp
        IN ((\A i \in 0..5 : r.board[i] = 0) \/ (\A i \in 7..12 : r.board[i] = 0))
               => r.isFinished

-----------------------------------------------------------------------------
(* internal/games: the games service, its storage and its events *)

\* the Redis keyspace with no game key in it
NoGames == [g \in {} |-> {}]

\* SET game:<id>
Set(store, game) ==
    [g \in DOMAIN store \cup {game.id} |-> IF g = game.id THEN game ELSE store[g]]

\* DEL game:<id>
Del(store, gameID) == [g \in DOMAIN store \ {gameID} |-> store[g]]

\* variant: only the first participant is recognised
IsPlayerInGame_OnlyFirst(game, playerID) == game.player1Id = playerID

IsPlayerInGame(game, playerID) ==
    game.player1Id = playerID \/ game.player2Id = playerID

\* variant: every caller plays the first side
GetPlayerFromID_AlwaysOne(playerID, game) == "PLAYER_ONE"

GetPlayerFromID(playerID, game) ==
    IF game.player1Id = playerID THEN "PLAYER_ONE" ELSE "PLAYER_TWO"

\* variant: a draw is credited to the first participant
determineWinner_DrawToFirst(moveResult, game) ==
    IF ~moveResult.isFinished THEN ""
    ELSE IF moveResult.winner = "WINNER_PLAYER_TWO" THEN game.player2Id
    ELSE game.player1Id

determineWinner(moveResult, game) ==
    IF ~moveResult.isFinished THEN ""
    ELSE IF moveResult.winner = "WINNER_PLAYER_ONE" THEN game.player1Id
    ELSE IF moveResult.winner = "WINNER_PLAYER_TWO" THEN game.player2Id
    ELSE ""

\* identities a request may carry: none, the two participants, a stranger
PlayerIds == {"", "p1", "p2", "p3"}

\* game ids a request may carry: none, the stored game, an unknown game
GameIds == {"", "g1", "g2"}

\* pit indices the callers of the games service submit: a pit of each
\* side that opens a new game, the pit of player one that ends the game
\* after TerminalLine, and an index off the board
SubmittedPits == {0, 5, 8, MaxPit}

\* what may go wrong outside the handler while it runs its first part
Faults == {"none", "redis", "engine"}

Handlers == 1..MaxHandlers

\* the record NewGame builds for ("p1", "p2"), after the moves of line
StoredGame(line) ==
    [id |-> "g1", state |-> Replay(NewGameState, line),
     player1Id |-> "p1", player2Id |-> "p2"]

\* RedisStorage.GetGame: the value under the key, or an error when the key
\* is absent (redis.Nil) or Redis fails
GetGame(store, gameID, redisFails) ==
    IF redisFails \/ gameID \notin DOMAIN store
    THEN [err |-> TRUE]
    ELSE [err |-> FALSE, game |-> store[gameID]]

\* Server.Move from its entry to the engine's answer: the message of the
\* error response it returns there, or "" and the engine's move result.
\* A panic in the engine's handler ends the engine process, which the
\* engine client reports as a failed call like any other transport failure.
MoveChecks(playerId, gameId, pitIndex, store, redisFails, engineFails) ==
    IF playerId = "" \/ gameId = ""
    THEN [message |-> "player ID and game ID are required"]
    ELSE LET got == GetGame(store, gameId, redisFails)
         IN IF got.err THEN [message |-> "game not found"]
            ELSE IF ~IsPlayerInGame(got.game, playerId)
            THEN [message |-> "player is not part of this game"]
            ELSE IF got.game.state.player # GetPlayerFromID(playerId, got.game)
            THEN [message |-> "it's not your turn"]
            ELSE LET r == Move([board |-> got.game.state.board,
                                player |-> got.game.state.player,
                                pitIndex |-> pitIndex])
                 IN IF engineFails \/ r.kind = "panic"
                    THEN [message |-> "engine error"]
                    ELSE IF r.kind = "Error" THEN [message |-> r.message]
                    ELSE [message |-> "", result |-> r,
                          game |-> [got.game EXCEPT
                                      !.state = [board |-> r.board, player |-> r.player]]]

\* variant: a finished result is saved like any other
AfterMoveMade_AlwaysSave(result) == "saveGame"

\* the step that follows the MOVE_MADE publication
AfterMoveMade(result) == IF result.isFinished THEN "publishGameOver" ELSE "saveGame"

\* variant: the event carries the state the call loaded
MoveMadeEvent_StateBeforeMove(l) ==
    [type |-> "MOVE_MADE", gameId |-> l.gameId, playerId |-> l.playerId,
     pitIndex |-> l.pitIndex, board |-> l.seen[l.gameId].state.board,
     player |-> l.seen[l.gameId].state.player]

MoveMadeEvent(l) ==
    [type |-> "MOVE_MADE", gameId |-> l.gameId, playerId |-> l.playerId,
     pitIndex |-> l.pitIndex, board |-> l.game.state.board,
     player |-> l.game.state.player]

GameOverEvent(l) ==
    LET winnerID == determineWinner(l.result, l.game)
    IN [type |-> "GAME_OVER", gameId |-> l.gameId, winnerId |-> winnerID,
        isDraw |-> (winnerID = ""), board |-> l.game.state.board]

IdleLoc == [playerId |-> "", gameId |-> "", pitIndex |-> 0]

NoReply == [kind |-> "none"]

Init ==
    /\ \E line \in Openings : storage = Set(NoGames, StoredGame(line))
    /\ pc = [h \in Handlers |-> "idle"]
    /\ loc = [h \in Handlers |-> IdleLoc]
    /\ stream = <<>>
    /\ reply = NoReply
    /\ hist = [calls |-> 0, version |-> 0, accepted |-> {}, twice |-> FALSE,
               deleted |-> FALSE, callers |-> {}, repeat |-> FALSE,
               stale |-> FALSE]
    /\ gs = NewGameState
    /\ over = FALSE
    /\ moves = 0
    /\ call = NoCall
    /\ IdleServices

\* the response a handler sends for the call whose locals are l
Respond(l, resp) == l @@ resp

\* a handler receives a request and runs Server.Move up to the engine's
\* answer: the id checks, GetGame, the participant and turn checks, the
\* engine call. It returns an error response or goes on to publish.
\* (Free handlers are interchangeable: the first free one takes the request.)
Receive(h, playerId, gameId, pitIndex, fault) ==
    /\ pc[h] = "idle"
    /\ \A k \in Handlers : k < h => pc[k] # "idle"
    /\ hist.calls < MaxCalls
    /\ LET c == MoveChecks(playerId, gameId, pitIndex, storage,
                           fault = "redis", fault = "engine")
           l == [playerId |-> playerId, gameId |-> gameId, pitIndex |-> pitIndex,
                 fault |-> fault, seen |-> storage,
                 readVersion |-> hist.version, afterDelete |-> hist.deleted,
                 attempts |-> <<>>, events |-> <<>>, ops |-> <<>>]
       IN IF c.message # ""
          THEN /\ reply' = Respond(l, [kind |-> "Error", message |-> c.message])
               /\ UNCHANGED <<pc, loc>>
          ELSE /\ pc' = [pc EXCEPT ![h] = "publishMoveMade"]
               /\ loc' = [loc EXCEPT ![h] = l @@ [game |-> c.game, result |-> c.result]]
               /\ reply' = NoReply
    /\ hist' = [hist EXCEPT !.calls = @ + 1,
                             !.callers = @ \cup ({playerId} \cap {"p1", "p2"}),
                             !.repeat = @ \/ (playerId \in hist.callers)]
    /\ UNCHANGED <<storage, stream, engineVars, serviceVars>>

\* variant: a failed publication ends the call with an error
PublishMoveMade_FailureAborts(h) ==
    /\ pc[h] = "publishMoveMade"
    /\ LET ev == MoveMadeEvent(loc[h])
       IN \/ /\ stream' = Append(stream, ev)
             /\ loc' = [loc EXCEPT ![h].attempts = Append(@, "MOVE_MADE"),
                                   ![h].events = Append(@, ev)]
             /\ pc' = [pc EXCEPT ![h] = AfterMoveMade(loc[h].result)]
             /\ reply' = NoReply
          \/ /\ stream' = stream
             /\ loc' = [loc EXCEPT ![h] = IdleLoc]
             /\ pc' = [pc EXCEPT ![h] = "idle"]
             /\ reply' = Respond([loc[h] EXCEPT !.attempts = Append(@, "MOVE_MADE")],
                                 [kind |-> "Error",
                                  message |-> "failed to publish event"])
    /\ UNCHANGED <<storage, hist, engineVars, serviceVars>>

\* EventPublisher.PublishMoveMade: XAdd appends the event or fails; the
\* failure is logged and the handler goes on
PublishMoveMade(h) ==
    /\ pc[h] = "publishMoveMade"
    /\ LET ev == MoveMadeEvent(loc[h])
       IN \/ /\ stream' = Append(stream, ev)
             /\ loc' = [loc EXCEPT ![h].attempts = Append(@, "MOVE_MADE"),
                                   ![h].events = Append(@, ev)]
          \/ /\ stream' = stream
             /\ loc' = [loc EXCEPT ![h].attempts = Append(@, "MOVE_MADE")]
    /\ pc' = [pc EXCEPT ![h] = AfterMoveMade(loc[h].result)]
    /\ reply' = NoReply
    /\ UNCHANGED <<storage, hist, engineVars, serviceVars>>

\* EventPublisher.PublishGameOver, on a finished result only
PublishGameOver(h) ==
    /\ pc[h] = "publishGameOver"
    /\ LET ev == GameOverEvent(loc[h])
       IN \/ /\ stream' = Append(stream, ev)
             /\ loc' = [loc EXCEPT ![h].attempts = Append(@, "GAME_OVER"),
                                   ![h].events = Append(@, ev)]
          \/ /\ stream' = stream
             /\ loc' = [loc EXCEPT ![h].attempts = Append(@, "GAME_OVER")]
    /\ pc' = [pc EXCEPT ![h] = "deleteGame"]
    /\ reply' = NoReply
    /\ UNCHANGED <<storage, hist, engineVars, serviceVars>>

\* the handler returns the move result: the call is accepted against the
\* storage version it read
Accept(l) ==
    [hist EXCEPT !.version = @ + 1,
                 !.accepted = @ \cup {l.readVersion},
                 !.twice = @ \/ (l.readVersion \in hist.accepted),
                 !.stale = @ \/ (l.readVersion # hist.version)]

\* RedisStorage.DeleteGame (DEL) and the response after it
DeleteGame(h) ==
    /\ pc[h] = "deleteGame"
    /\ \/ /\ storage' = Del(storage, loc[h].gameId)
          /\ reply' = Respond([loc[h] EXCEPT !.ops = Append(@, "delete")],
                              [kind |-> "MoveResult"])
          /\ hist' = [Accept(loc[h]) EXCEPT !.deleted = TRUE]
       \/ /\ reply' = Respond(loc[h], [kind |-> "Error",
                                        message |-> "failed to clean up finished game"])
          /\ UNCHANGED <<storage, hist>>
    /\ pc' = [pc EXCEPT ![h] = "idle"]
    /\ loc' = [loc EXCEPT ![h] = IdleLoc]
    /\ UNCHANGED <<stream, engineVars, serviceVars>>

\* RedisStorage.SaveGame (SET of the whole record) and the response after it
SaveGame(h) ==
    /\ pc[h] = "saveGame"
    /\ \/ /\ storage' = Set(storage, loc[h].game)
          /\ reply' = Respond([loc[h] EXCEPT !.ops = Append(@, "save")],
                              [kind |-> "MoveResult"])
          /\ hist' = Accept(loc[h])
       \/ /\ reply' = Respond(loc[h], [kind |-> "Error",
                                        message |-> "failed to save game state"])
          /\ UNCHANGED <<storage, hist>>
    /\ pc' = [pc EXCEPT ![h] = "idle"]
    /\ loc' = [loc EXCEPT ![h] = IdleLoc]
    /\ UNCHANGED <<stream, engineVars, serviceVars>>

Next ==
    \E h \in Handlers :
        \/ \E playerId \in PlayerIds, gameId \in GameIds,
              pitIndex \in SubmittedPits, fault \in Faults :
                Receive(h, playerId, gameId, pitIndex, fault)
        \/ PublishMoveMade(h)
        \/ PublishGameOver(h)
        \/ DeleteGame(h)
        \/ SaveGame(h)

Spec == Init /\ [][Next]_vars

-----------------------------------------------------------------------------
(* Claims about the games service, checked under Spec *)

\* the last step returned a move result to its caller
Succeeded == reply.kind = "MoveResult"

\* C3: two Move calls on the same game id never both read the same stored
\* state and both succeed; at most one call is accepted against any stored
\* state.
C3_OneAcceptPerStoredState == ~hist.twice

\* C8: once a game's record has been deleted it never reappears in storage,
\* and every call on that id received after the deletion is answered "game
\* not found".
C8_DeletedStaysDeleted ==
    hist.deleted =>
        /\ "g1" \notin DOMAIN storage
        /\ (reply.kind # "none" /\ reply.afterDelete
                /\ reply.playerId # "" /\ reply.gameId = "g1")
              => (reply.kind = "Error" /\ reply.message = "game not found")

\* the types of the events in evs, in order
Types(evs) == [i \in 1..Len(evs) |-> evs[i].type]

\* C9 as stated: every successful Move produces exactly one storage
\* operation (a write for a non-terminal result, a delete for a terminal
\* one) and exactly one emitted event (MOVE_MADE for a non-terminal result,
\* GAME_OVER for a terminal one).
C9_OneOpOneEvent ==
    Succeeded =>
        IF reply.result.isFinished
        THEN reply.ops = <<"delete">> /\ Types(reply.events) = <<"GAME_OVER">>
        ELSE reply.ops = <<"save">> /\ Types(reply.events) = <<"MOVE_MADE">>

\* C9, amended: every successful Move performs exactly one storage
\* operation (a write for a non-terminal result, a delete for a terminal
\* one) and attempts exactly one MOVE_MADE publication, followed for a
\* terminal result by exactly one GAME_OVER publication; each attempt emits
\* at most one event, in that order.
C9_OneOpAndPublications ==
    Succeeded =>
        /\ IF reply.result.isFinished
           THEN /\ reply.ops = <<"delete">>
                /\ reply.attempts = <<"MOVE_MADE", "GAME_OVER">>
           ELSE /\ reply.ops = <<"save">>
                /\ reply.attempts = <<"MOVE_MADE">>
        /\ Types(reply.events) \in
              {reply.attempts, <<>>} \cup {<<t>> : t \in {reply.attempts[i] : i \in 1..Len(reply.attempts)}}

\* a terminal move succeeded: it deleted the record after emitting both
\* a MOVE_MADE and a GAME_OVER event
C9_Witness ==
    /\ Succeeded
    /\ reply.result.isFinished
    /\ reply.ops = <<"delete">>
    /\ Types(reply.events) = <<"MOVE_MADE", "GAME_OVER">>

\* C10: no event is emitted for a Move whose storage write or delete fails
\* and which returns an error to the caller.
C10_NoEventWithoutStorage ==
    (reply.kind = "Error"
        /\ reply.message \in {"failed to save game state",
                              "failed to clean up finished game"})
      => reply.events = <<>>

\* the last step answered a call that carried both ids
Answered == reply.kind # "none" /\ reply.playerId # "" /\ reply.gameId # ""

\* C11: when storage is unreachable while Move loads the game, the response
\* differs from the "game not found" response given for an unknown game id.
C11_StorageFailureDistinct ==
    (Answered /\ reply.fault = "redis")
        => ~(reply.kind = "Error" /\ reply.message = "game not found")

\* the participant whose side is the current mover of the record
TurnHolder(game, playerId) ==
    \/ playerId = game.player1Id /\ game.state.player = "PLAYER_ONE"
    \/ playerId = game.player2Id /\ game.state.player = "PLAYER_TWO"

\* the record a call loaded, for a call that found one
Loaded(l) == l.seen[l.gameId]

\* C12: in any sequence of Move calls on a game with two distinct
\* participants, storage is written only by a call of the participant whose
\* side was the stored current mover when the call loaded the record; a call
\* by the other participant is answered "it's not your turn" and leaves the
\* stored record unchanged.
C12_TurnEnforcement ==
    [][ /\ storage' # storage =>
              \E h \in Handlers :
                  /\ pc[h] \in {"saveGame", "deleteGame"} /\ pc'[h] = "idle"
                  /\ TurnHolder(Loaded(loc[h]), loc[h].playerId)
        /\ ( /\ reply'.kind # "none"
             /\ reply'.fault # "redis"
             /\ reply'.gameId \in DOMAIN reply'.seen
             /\ reply'.playerId \in {"p1", "p2"}
             /\ ~TurnHolder(Loaded(reply'), reply'.playerId) )
           => /\ reply'.kind = "Error"
              /\ reply'.message = "it's not your turn"
              /\ storage' = storage ]_vars

\* the other participant is refused after a move has been applied
C12_Witness ==
    /\ reply.kind = "Error" /\ reply.message = "it's not your turn"
    /\ reply.playerId \in {"p1", "p2"}
    /\ hist.version > 0

\* C13: when the two participants of a game each submit a move and the two
\* calls overlap, the turn check admits exactly one of them against any stored
\* state, no two calls are accepted against the same state, and a call is
\* accepted only on top of the latest stored state (no lost update): the other
\* call is refused or applied to the state the first one wrote.
C13_NoLostUpdate ==
    /\ \A g \in DOMAIN storage :
           TurnHolder(storage[g], "p1") # TurnHolder(storage[g], "p2")
    /\ ~hist.repeat => ~hist.twice /\ ~hist.stale
    /\ (~hist.repeat /\ Succeeded) => reply.readVersion = hist.version - 1

\* both participants have a call under way at once: one is refused while the
\* other is about to write
C13_Witness ==
    /\ ~hist.repeat
    /\ reply.kind = "Error" /\ reply.message = "it's not your turn"
    /\ \E h \in Handlers : /\ pc[h] = "saveGame"
                           /\ loc[h].playerId \in {"p1", "p2"} \ {reply.playerId}

\* C14: after a Move whose result is terminal has returned successfully, the
\* record is absent from storage and every later Move on that game id, by any
\* caller and for any pit, is answered "game not found".
C14_FinishedGameIsGone ==
    hist.deleted =>
        /\ "g1" \notin DOMAIN storage
        /\ \A playerId \in PlayerIds \ {""}, pitIndex \in SubmittedPits :
               MoveChecks(playerId, "g1", pitIndex, storage, FALSE, FALSE).message
                   = "game not found"

\* C15: after a successful Move that does not end the game, the stored record
\* holds exactly the board and mover of the returned MoveResult, its id and
\* participant ids are those of the record the call loaded, and the "move
\* made" event the call emitted carries the caller's id, the chosen pit and
\* that same new state.
C15_StoredAndPublished ==
    (Succeeded /\ ~reply.result.isFinished) =>
        /\ reply.gameId \in DOMAIN storage
        /\ storage[reply.gameId] =
               [id |-> Loaded(reply).id,
                player1Id |-> Loaded(reply).player1Id,
                player2Id |-> Loaded(reply).player2Id,
                state |-> [board |-> reply.result.board,
                           player |-> reply.result.player]]
        /\ reply.ops = <<"save">>
        /\ \A i \in DOMAIN reply.events :
               reply.events[i] =
                   [type |-> "MOVE_MADE", gameId |-> reply.gameId,
                    playerId |-> reply.playerId, pitIndex |-> reply.pitIndex,
                    board |-> reply.result.board, player |-> reply.result.player]

\* a move that does not end the game succeeded and its event was emitted
C15_Witness ==
    /\ Succeeded /\ ~reply.result.isFinished
    /\ Len(reply.events) = 1
    /\ reply.result.board # Loaded(reply).state.board

\* the call passed the id, existence, participant and turn checks and went
\* to the engine
ReachedEngine(l) ==
    /\ l.playerId # "" /\ l.gameId # ""
    /\ l.fault # "redis"
    /\ l.gameId \in DOMAIN l.seen
    /\ TurnHolder(Loaded(l), l.playerId)

\* a pit of the mover's own row
OwnPit(pitIndex, player) ==
    IF player = "PLAYER_ONE" THEN pitIndex \in 0..5 ELSE pitIndex \in 7..12

\* C16: when the engine refuses a move as a rule violation the response
\* carries the engine's message verbatim (errInvalidPitIndex for a pit that
\* is not the mover's, errEmptyPit for an empty one); when the engine call
\* itself fails the response is "engine error: <detail>"; in both cases the
\* stored record is unchanged and no event is emitted.
C16_EngineRefusal ==
    [][ (reply'.kind = "Error" /\ ReachedEngine(reply')) =>
          LET state == Loaded(reply').state
              pit == reply'.pitIndex
          IN /\ reply'.fault = "engine" => reply'.message = "engine error"
             /\ (reply'.fault = "none" /\ ~OwnPit(pit, state.player))
                    => reply'.message = errInvalidPitIndex
             /\ (reply'.fault = "none" /\ OwnPit(pit, state.player)
                                       /\ state.board[pit] = 0)
                    => reply'.message = errEmptyPit
             /\ reply'.message \in {"engine error", errInvalidPitIndex,
                                    errEmptyPit, errInvalidBoard}
                    => /\ storage' = storage
                       /\ stream' = stream
                       /\ reply'.events = <<>> /\ reply'.ops = <<>> ]_vars

\* the engine refused an empty pit of the mover's after an earlier move
C16_Witness ==
    /\ reply.kind = "Error" /\ ReachedEngine(reply)
    /\ reply.message = errEmptyPit
    /\ hist.version > 0

\* the message of the first of the four checks of Server.Move that the call
\* fails, "" when it passes them all
FirstFailedCheck(l) ==
    IF l.playerId = "" \/ l.gameId = ""
    THEN "player ID and game ID are required"
    ELSE IF l.gameId \notin DOMAIN l.seen THEN "game not found"
    ELSE IF l.playerId \notin {Loaded(l).player1Id, Loaded(l).player2Id}
    THEN "player is not part of this game"
    ELSE IF ~TurnHolder(Loaded(l), l.playerId) THEN "it's not your turn"
    ELSE ""

\* C17: Move checks, in this order, that both ids are non-empty, that the
\* game exists, that the caller is a participant and that the caller's side
\* is the current mover; the first failing check is the one returned, as an
\* in-band Error, whatever the pit and whether or not the engine is
\* available, and in that case nothing is written and no event is emitted.
C17_ChecksInOrder ==
    [][ ( /\ reply'.kind # "none"
          /\ reply'.playerId = "" \/ reply'.gameId = "" \/ reply'.fault # "redis"
          /\ FirstFailedCheck(reply') # "" )
        => /\ reply'.kind = "Error"
           /\ reply'.message = FirstFailedCheck(reply')
           /\ storage' = storage /\ stream' = stream
           /\ reply'.events = <<>> /\ reply'.ops = <<>> ]_vars

\* a stranger asks for a pit off the board while the engine is down: the
\* participant check answers
C17_Witness ==
    /\ reply.kind = "Error"
    /\ reply.message = "player is not part of this game"
    /\ reply.pitIndex = MaxPit /\ reply.fault = "engine"

\* some publication of the call failed
PublicationFailed(l) == Len(l.attempts) > Len(l.events)

\* C18: when emitting an event fails, Move still performs the storage write
\* (or the delete, for a finished game) and returns the successful
\* MoveResult: the call ends in an error only when that storage operation
\* itself fails.
C18_PublishFailureTolerated ==
    (reply.kind # "none" /\ PublicationFailed(reply)) =>
        \/ /\ reply.kind = "MoveResult"
           /\ IF reply.result.isFinished
              THEN reply.ops = <<"delete">> /\ reply.gameId \notin DOMAIN storage
              ELSE reply.ops = <<"save">> /\ storage[reply.gameId] = reply.game
        \/ /\ reply.kind = "Error"
           /\ reply.message \in {"failed to save game state",
                                 "failed to clean up finished game"}

\* a move was stored and returned although its event could not be emitted
C18_Witness ==
    Succeeded /\ PublicationFailed(reply) /\ reply.events = <<>>

-----------------------------------------------------------------------------
(* The engine's Move called directly with requests of any shape, checked
   under SpecRequest *)

\* the first n pits of board, padded with empty pits
Resize(board, n) ==
    [i \in 0..(n - 1) |-> IF i \in DOMAIN board THEN board[i] ELSE 0]

\* boards a request may carry: the boards of the openings, cut or padded to
\* every length up to MaxBoardLen
RequestBoards ==
    {Resize(Replay(NewGameState, line).board, n) :
        line \in Openings, n \in 0..MaxBoardLen}

\* the Pits slice of the request once Move has returned: validation reads
\* it only; sowing, capture and sweep write into it
PitsAfterMove(req) ==
    LET steps == MoveSteps(req)
    IN IF steps.err # "" THEN req.board
       ELSE IF steps.resp.kind = "panic" THEN steps.sown
       ELSE steps.resp.board

InitRequest ==
    /\ \E board \in RequestBoards, player \in Players, pitIndex \in 0..MaxPit :
           call = [made |-> FALSE,
                   req |-> [board |-> board, player |-> player,
                            pitIndex |-> pitIndex]]
    /\ gs = NewGameState
    /\ over = FALSE
    /\ moves = 0
    /\ IdleGames
    /\ IdleServices

\* the request is sent to the engine
RequestMove ==
    /\ ~call.made
    /\ call' = [made |-> TRUE, req |-> call.req, steps |-> MoveSteps(call.req),
                pits |-> PitsAfterMove(call.req)]
    /\ UNCHANGED <<gs, over, moves, gamesVars, serviceVars>>

\* the same request value is sent once more: its Pits slice holds what the
\* first call left in it
RequestMoveAgain ==
    /\ call.made
    /\ "second" \notin DOMAIN call
    /\ call' = call @@ [second |-> MoveSteps([call.req EXCEPT !.board = call.pits])]
    /\ UNCHANGED <<gs, over, moves, gamesVars, serviceVars>>

NextRequest == RequestMove \/ RequestMoveAgain

SpecRequest == InitRequest /\ [][NextRequest]_vars

\* the violation the engine's contract asks for, "" for a legal request
ExpectedViolation(req) ==
    IF Cardinality(DOMAIN req.board) # 14 THEN errInvalidBoard
    ELSE IF ~OwnPit(req.pitIndex, req.player) THEN errInvalidPitIndex
    ELSE IF req.board[req.pitIndex] = 0 THEN errEmptyPit
    ELSE ""

\* C19: the engine's Move rejects in-band, leaving the request's board as it
\* was, every request whose board does not have exactly 14 pits, whose pit
\* index is not one of the mover's six pits (0-5, 7-12; the stores and every
\* index from 14 on are rejected) or whose pit is empty, and reports the
\* first of these that applies, in that order.
C19_Validation ==
    (call.made /\ ExpectedViolation(call.req) # "") =>
        /\ call.steps.resp = [kind |-> "Error",
                              message |-> ExpectedViolation(call.req)]
        /\ call.pits = call.req.board

\* a store index on a board that is too long, and an empty pit off a board
\* that is too short: the board length is reported
C19_Witness ==
    /\ call.made
    /\ call.steps.resp.kind = "Error"
    /\ call.steps.resp.message = errInvalidBoard
    /\ call.req.pitIndex \in {6, 13, MaxPit}
    /\ Cardinality(DOMAIN call.req.board) > 14

-----------------------------------------------------------------------------
(* Sowing, checked under SpecEngine *)

\* the counters the accepted move took out of the chosen pit
SeedsSown == call.req.board[call.req.pitIndex]

\* C20: while a mover sows, the opponent's store never receives a counter:
\* after the sowing of every accepted move the opponent's store (index 13
\* for player one, 6 for player two) holds what it held in the request, for
\* any number of counters, 13 or more included.
C20_OpponentStoreSkipped ==
    (call.made /\ call.steps.err = "") =>
        call.steps.sown[OtherStore(call.req.player)]
            = call.req.board[OtherStore(call.req.player)]

\* a move of 13 or more counters went round the board past the opponent's
\* store
C20_Witness ==
    /\ call.made /\ call.steps.err = ""
    /\ SeedsSown >= 13
    /\ \A i \in 0..13 : i # OtherStore(call.req.player) /\ i # call.req.pitIndex
                            => call.steps.sown[i] > call.req.board[i]

\* C21: a move result carries a winner other than NO_WINNER exactly when it
\* is terminal; on a terminal result the winner is player one when store 6
\* of the swept board is strictly greater than store 13, player two when
\* store 13 is strictly greater, and a draw when the stores are equal.
C21_WinnerByStores ==
    Accepted =>
        LET r == call.steps.resp
        IN /\ (r.winner # "NO_WINNER") <=> r.isFinished
           /\ r.isFinished =>
                /\ r.board[6] > r.board[13] => r.winner = "WINNER_PLAYER_ONE"
                /\ r.board[13] > r.board[6] => r.winner = "WINNER_PLAYER_TWO"
                /\ r.board[6] = r.board[13] => r.winner = "DRAW"

\* a terminal result whose sweep decided the winner: the stores as the
\* capture step left them compare otherwise
C21_Witness ==
    /\ Accepted
    /\ call.steps.resp.isFinished
    /\ call.steps.resp.winner # GetWinner(call.steps.afterCapture)

\* how many deposits after pitIndex the sowing of player reaches index i:
\* the indices follow each other modulo 14 leaving out the other player's
\* store, so the chosen pit is the thirteenth
Distance(pitIndex, player, i) ==
    LET di == (i - pitIndex + 14) % 14
        ds == (OtherStore(player) - pitIndex + 14) % 14
    IN IF i = pitIndex THEN 13
       ELSE IF ds < di THEN di - 1
       ELSE di

\* the deposits index i receives when n counters are sown from pitIndex
Deposits(pitIndex, player, n, i) ==
    IF i = OtherStore(player) THEN 0
    ELSE Cardinality({k \in 1..n : ((k - 1) % 13) + 1 = Distance(pitIndex, player, i)})

\* C22: for every accepted move of a pit holding n counters, before capture
\* processing the chosen pit has given up its n counters and exactly n
\* deposits of one counter each have been made on the consecutive indices
\* after the chosen pit modulo 14, skipping only the opponent's store; with
\* 13 or more counters the sowing wraps and deposits into the chosen pit too.
C22_Sowing ==
    (call.made /\ call.steps.err = "") =>
        LET pit == call.req.pitIndex
            mover == call.req.player
            n == SeedsSown
        IN /\ \A i \in 0..13 :
                 call.steps.sown[i] =
                     (IF i = pit THEN 0 ELSE call.req.board[i])
                         + Deposits(pit, mover, n, i)
           /\ SumPits(call.steps.sown, 0..13) = SumPits(call.req.board, 0..13)
           /\ Distance(pit, mover, call.steps.last) = ((n - 1) % 13) + 1
           /\ n >= 13 => call.steps.sown[pit] >= 1

\* a sowing of 13 or more counters came back to the chosen pit
C22_Witness ==
    /\ call.made /\ call.steps.err = ""
    /\ SeedsSown >= 13
    /\ call.steps.sown[call.req.pitIndex] = 1

\* where the last counter of the accepted move fell rules a capture out: a
\* store, a pit of the opponent, an own pit that already held counters, or an
\* empty own pit opposite an empty pit
NoCaptureCase ==
    /\ Accepted
    /\ LET last == call.steps.last
           sown == call.steps.sown
       IN \/ last \in {6, 13}
          \/ last \in OtherPits(call.req.player)
          \/ last \in OwnPits(call.req.player) /\ sown[last] > 1
          \/ last \in OwnPits(call.req.player) /\ sown[last] = 1
                                                /\ sown[12 - last] = 0

\* C23: no capture occurs unless all three capture conditions hold: when the
\* last counter lands in a store, in a pit of the opponent, in an own pit
\* that already held counters, or in an empty own pit whose opposite pit is
\* empty, the board after the capture step equals the board after sowing.
C23_NoCaptureOtherwise ==
    NoCaptureCase => call.steps.afterCapture = call.steps.sown

\* the last counter made a single in a pit of the opponent whose opposite pit
\* holds counters, and nothing was captured
C23_Witness ==
    /\ NoCaptureCase
    /\ call.steps.last \in OtherPits(call.req.player)
    /\ call.steps.sown[call.steps.last] = 1
    /\ call.steps.sown[12 - call.steps.last] > 0

-----------------------------------------------------------------------------
(* Purity of the engine, checked under SpecRequest *)

\* C24: the rule engine is a pure function of (board, mover, chosen pit): an
\* accepted Move leaves the board held by its request as it was, and a
\* second Move with the same request value returns what the first returned.
C24_Pure ==
    Accepted =>
        /\ call.pits = call.req.board
        /\ "second" \in DOMAIN call => call.second.resp = call.steps.resp

-----------------------------------------------------------------------------
(* Server.Create, checked under SpecCreate *)

\* generateGameID: 16 bytes read from crypto/rand, in hexadecimal. Any value
\* of that form may come out; nothing compares it with the ids in storage.
GeneratedIds == {"g1", "g2"}

\* models.go NewGame, with the id generateGameID returned
NewGame(gameID, player1ID, player2ID) ==
    [id |-> gameID, state |-> NewGameState,
     player1Id |-> player1ID, player2Id |-> player2ID]

\* variant: only the first id is required
CreateRefused_FirstOnly(player1Id, player2Id) == player1Id = ""

\* Server.Create refuses a request with an empty player id
CreateRefused(player1Id, player2Id) == player1Id = "" \/ player2Id = ""

\* Server.Create: the id check, NewGame, SaveGame (one SET) and the response;
\* errors are returned as Go errors, not in the response
Create(player1Id, player2Id, gameID, redisFails) ==
    /\ hist.calls < MaxCalls
    /\ hist' = [hist EXCEPT !.calls = @ + 1]
    /\ LET l == [player1Id |-> player1Id, player2Id |-> player2Id,
                 existed |-> gameID \in DOMAIN storage]
           game == NewGame(gameID, player1Id, player2Id)
       IN IF CreateRefused(player1Id, player2Id)
          THEN /\ reply' = [kind |-> "error", call |-> l,
                            message |-> "both player IDs are required"]
               /\ storage' = storage
          ELSE IF redisFails
          THEN /\ reply' = [kind |-> "error", call |-> l,
                            message |-> "failed to save game"]
               /\ storage' = storage
          ELSE /\ reply' = [kind |-> "Game", call |-> l, game |-> game]
               /\ storage' = Set(storage, game)
    /\ UNCHANGED <<pc, loc, stream, engineVars, serviceVars>>

NextCreate ==
    \E player1Id \in PlayerIds, player2Id \in PlayerIds,
       gameID \in GeneratedIds, redisFails \in BOOLEAN :
        Create(player1Id, player2Id, gameID, redisFails)

SpecCreate == Init /\ [][NextCreate]_vars

\* the last Create returned a game
Created == reply.kind = "Game"

C26_CreateNeedsBothIds ==
    [][ (reply'.kind \in {"Game", "error"}
            /\ (reply'.call.player1Id = "" \/ reply'.call.player2Id = ""))
        => /\ reply'.kind = "error"
           /\ reply'.message = "both player IDs are required"
           /\ storage' = storage ]_vars

\* a request without its second id was refused while storage would have
\* taken the game
C26_Witness ==
    /\ reply.kind = "error"
    /\ reply.call.player1Id # "" /\ reply.call.player2Id = ""
    /\ reply.message = "both player IDs are required"

-----------------------------------------------------------------------------
(* The GAME_OVER event, checked under Spec *)

\* what the engine can declare on a finished result
Winners == {"WINNER_PLAYER_ONE", "WINNER_PLAYER_TWO", "DRAW"}

\* the winner id and draw flag a GAME_OVER event must carry for game when
\* the engine declared winner
RightWinner(ev, game, winner) ==
    /\ winner = "WINNER_PLAYER_ONE" => ev.winnerId = game.player1Id /\ ~ev.isDraw
    /\ winner = "WINNER_PLAYER_TWO" => ev.winnerId = game.player2Id /\ ~ev.isDraw
    /\ winner = "DRAW" => ev.winnerId = "" /\ ev.isDraw
    /\ ev.isDraw => winner = "DRAW"

\* C27: the GAME_OVER event of a terminal move carries as winner id the id of
\* the participant whose side the engine declared winner (participant one's
\* for player one, participant two's for player two), and an empty winner id
\* with the draw flag set exactly when the engine declared a draw. This holds
\* of the events the calls emitted and of the event Move would build for any
\* stored game on each verdict of the engine.
C27_GameOverWinner ==
    /\ reply.kind \in {"MoveResult", "Error"} =>
           \A i \in DOMAIN reply.events :
               reply.events[i].type = "GAME_OVER" =>
                   /\ reply.result.isFinished
                   /\ RightWinner(reply.events[i], Loaded(reply), reply.result.winner)
    /\ \A g \in DOMAIN storage : \A winner \in Winners :
           RightWinner(GameOverEvent([gameId |-> g, game |-> storage[g],
                                      result |-> [isFinished |-> TRUE,
                                                  winner |-> winner]]),
                       storage[g], winner)

\* a terminal move was answered after its GAME_OVER event named a winner
C27_Witness ==
    /\ reply.kind = "MoveResult"
    /\ reply.result.isFinished
    /\ \E i \in DOMAIN reply.events :
           /\ reply.events[i].type = "GAME_OVER"
           /\ reply.events[i].winnerId \in {"p1", "p2"}

-----------------------------------------------------------------------------
(* internal/notifications: the subscriber of the event stream and the
   client manager, checked under SpecNotify. The stream is the one the
   matchmaking service (MATCH_FOUND) and the games service (MOVE_MADE,
   GAME_OVER) publish to; one game, g1 between p1 and p2, is played. *)

\* players that may subscribe: the two participants and a stranger
Subscribers == {"p1", "p2", "p3"}

\* NewClientManager: no client, no tracked game; nothing consumed yet.
\* clients maps a player id to the stream of its connection (streams are
\* numbered as they are opened, streams counts them), open holds the
\* Subscribe calls waiting for their stream to end, ret is the last call on
\* the manager. delivered and owed record, per (player, position in the
\* event stream), the notifications sent and the ones a connected
\* participant was due.
NewClientManager ==
    [clients |-> [p \in {} |-> 0], open |-> {}, streams |-> 0,
     ret |-> [op |-> "none"],
     gameParticipants |-> [g \in {} |-> <<>>],
     cursor |-> 0, delivered |-> {}, owed |-> {}]

\* the players with a connection in the manager
Connected(cm) == DOMAIN cm.clients

\* AddClient: the player's entry is set to the new stream, replacing the
\* entry of an earlier connection (whose done channel is closed)
AddClient(clients, playerID, conn) ==
    [p \in DOMAIN clients \cup {playerID} |->
        IF p = playerID THEN conn ELSE clients[p]]

\* RemoveClient as Subscribe calls it when its stream has ended: the entry
\* under the player id is deleted, whichever stream it holds
RemoveClient(clients, playerID, conn) ==
    [p \in DOMAIN clients \ {playerID} |-> clients[p]]

InitNotify ==
    /\ notif = NewClientManager
    /\ mm = <<>>
    /\ IdleGames
    /\ gs = NewGameState
    /\ over = FALSE
    /\ moves = 0
    /\ call = NoCall

Published(type) == \E i \in DOMAIN stream : stream[i].type = type

\* matchmaking createMatch: the MATCH_FOUND event of the new game
PublishMatchFound ==
    /\ Len(stream) < MaxEvents
    /\ ~Published("MATCH_FOUND")
    /\ stream' = Append(stream, [type |-> "MATCH_FOUND", gameId |-> "g1",
                                 player1Id |-> "p1", player2Id |-> "p2"])
    /\ UNCHANGED <<notif, mm, storage, pc, loc, reply, hist, engineVars>>

\* games Server.Move: the MOVE_MADE event of a move by playerId
PublishMove(playerId) ==
    /\ Len(stream) < MaxEvents
    /\ Published("MATCH_FOUND") /\ ~Published("GAME_OVER")
    /\ stream' = Append(stream, [type |-> "MOVE_MADE", gameId |-> "g1",
                                 playerId |-> playerId])
    /\ UNCHANGED <<notif, mm, storage, pc, loc, reply, hist, engineVars>>

\* games Server.Move: the GAME_OVER event of the terminal move
PublishOver ==
    /\ Len(stream) < MaxEvents
    /\ Published("MATCH_FOUND") /\ ~Published("GAME_OVER")
    /\ stream' = Append(stream, [type |-> "GAME_OVER", gameId |-> "g1"])
    /\ UNCHANGED <<notif, mm, storage, pc, loc, reply, hist, engineVars>>

\* Server.Subscribe up to AddClient, for the player the caller is
\* authenticated as; the call then waits for its stream to end
Subscribe(playerId) ==
    /\ notif.streams < MaxStreams
    /\ LET conn == notif.streams + 1
       IN notif' = [notif EXCEPT
                       !.streams = conn,
                       !.clients = AddClient(@, playerId, conn),
                       !.open = @ \cup {[playerId |-> playerId,
                                         stream |-> conn]},
                       !.ret = [op |-> "Subscribe", playerId |-> playerId,
                                stream |-> conn, before |-> notif.clients]]
    /\ UNCHANGED <<mm, gamesVars, engineVars>>

\* the stream of a waiting Subscribe call ends: RemoveClient for its player
Unsubscribe(playerId, conn) ==
    /\ [playerId |-> playerId, stream |-> conn] \in notif.open
    /\ notif' = [notif EXCEPT
                    !.clients = RemoveClient(@, playerId, conn),
                    !.open = @ \ {[playerId |-> playerId, stream |-> conn]},
                    !.ret = [op |-> "Unsubscribe", playerId |-> playerId,
                             stream |-> conn, before |-> notif.clients]]
    /\ UNCHANGED <<mm, gamesVars, engineVars>>

\* the elements of a sequence
Range(seq) == {seq[i] : i \in DOMAIN seq}

\* GetGameParticipants: the tracked players of the game, none when the game
\* is not tracked
GetGameParticipants(cm, gameID) ==
    IF gameID \in DOMAIN cm.gameParticipants
    THEN cm.gameParticipants[gameID] ELSE <<>>

\* the players the handler of the event calls NotifyPlayer for
Notified(cm, ev) ==
    IF ev.type = "MATCH_FOUND" THEN {ev.player1Id, ev.player2Id}
    ELSE IF ev.type = "MOVE_MADE"
    THEN Range(GetGameParticipants(cm, ev.gameId)) \ {ev.playerId}
    ELSE Range(GetGameParticipants(cm, ev.gameId))

\* the participants of the game of the event at position idx, as its match
\* was announced earlier in the stream
Matched(idx) ==
    UNION {{stream[i].player1Id, stream[i].player2Id} :
             i \in {j \in 1..(idx - 1) : /\ stream[j].type = "MATCH_FOUND"
                                         /\ stream[j].gameId = stream[idx].gameId}}

\* the participants who are to hear of the event at position idx
Due(idx) ==
    IF stream[idx].type = "MOVE_MADE" THEN Matched(idx) \ {stream[idx].playerId}
    ELSE IF stream[idx].type = "GAME_OVER" THEN Matched(idx)
    ELSE {}

\* EventSubscriber.consume: the next message is processed and acknowledged.
\* NotifyPlayer sends to a connected player; a failed Send removes the client.
ProcessMessage ==
    /\ notif.cursor < Len(stream)
    /\ LET idx == notif.cursor + 1
           ev == stream[idx]
           targets == Notified(notif, ev) \cap Connected(notif)
       IN \E failing \in SUBSET targets :
            notif' = [notif EXCEPT
                !.cursor = idx,
                !.clients = [p \in DOMAIN @ \ failing |-> @[p]],
                !.ret = [op |-> "ProcessMessage"],
                !.delivered = @ \cup {<<p, idx>> : p \in targets \ failing},
                !.owed = @ \cup {<<p, idx>> :
                                   p \in (Due(idx) \cap Connected(notif)) \ failing},
                !.gameParticipants =
                    IF ev.type = "GAME_OVER"
                    THEN [g \in DOMAIN @ \ {ev.gameId} |-> @[g]]
                    ELSE @]
    /\ UNCHANGED <<mm, gamesVars, engineVars>>

NextNotify ==
    \/ PublishMatchFound
    \/ \E playerId \in {"p1", "p2"} : PublishMove(playerId)
    \/ PublishOver
    \/ \E playerId \in Subscribers : Subscribe(playerId)
    \/ \E playerId \in Subscribers, conn \in 1..MaxStreams :
           Unsubscribe(playerId, conn)
    \/ ProcessMessage

SpecNotify == InitNotify /\ [][NextNotify]_vars

\* C28: once a match has been found for a game, every MOVE_MADE event of
\* the game is delivered to the connected participant who did not make the
\* move, and the GAME_OVER event to both connected participants.
C28_ParticipantsNotified == notif.owed \subseteq notif.delivered

\* C36: when a player has opened a second subscription while an earlier one
\* was still open, the ending of the earlier stream leaves the newer
\* subscription in the manager: the player is still connected through it.
C36_NewerSubscriptionKept ==
    (/\ notif.ret.op = "Unsubscribe"
     /\ notif.ret.playerId \in DOMAIN notif.ret.before
     /\ notif.ret.before[notif.ret.playerId] # notif.ret.stream) =>
        /\ notif.ret.playerId \in Connected(notif)
        /\ notif.clients[notif.ret.playerId] = notif.ret.before[notif.ret.playerId]

-----------------------------------------------------------------------------
(* internal/matchmaking: PlayerQueue, checked under SpecQueue. Every method
   holds pq.mu from entry to return, so each call is one step. *)

\* players that may queue
QueuePlayers == {"a", "b", "c"}

\* NewPlayerQueue: empty map, empty slice. clock stands for time.Now() and
\* for the fresh queue id of each Enqueue; ret is what the last call saw and
\* returned. Around the queue, the matchmaking server: pending holds the
\* pairs whose createMatch goroutine has not run yet, games the games
\* created, left the queue ids taken out by RemovePlayer; ret.updates are the
\* updates the last call put on the players' streams.
NewPlayerQueue ==
    [players |-> [p \in {} |-> <<>>], queue |-> <<>>, clock |-> 0,
     ret |-> [op |-> "none", updates |-> {}],
     pending |-> {}, games |-> {}, left |-> {}]

\* the indices of the slice that hold playerID
IndicesOf(queue, playerID) == {i \in DOMAIN queue : queue[i].id = playerID}

\* the update removePlayerLocked puts on the stream of the entry it removes
QueueCancelled(queuedPlayer) ==
    [playerId |-> queuedPlayer.id, queueID |-> queuedPlayer.queueID,
     status |-> "CANCELLED", reason |-> "Queue cancelled by player"]

\* variant: a removal that reports success for a player who is not queued
removePlayerLocked_AlwaysTrue(pq, playerID) ==
    IF playerID \notin DOMAIN pq.players
    THEN [removed |-> TRUE, players |-> pq.players, queue |-> pq.queue,
          updates |-> {}]
    ELSE LET S == IndicesOf(pq.queue, playerID)
             i == CHOOSE j \in S : \A k \in S : j <= k
         IN [removed |-> TRUE,
             players |-> [p \in DOMAIN pq.players \ {playerID} |-> pq.players[p]],
             queue |-> IF S = {} THEN pq.queue
                       ELSE SubSeq(pq.queue, 1, i - 1)
                                \o SubSeq(pq.queue, i + 1, Len(pq.queue)),
             updates |-> IF pq.players[playerID].stream
                         THEN {QueueCancelled(pq.players[playerID])}
                         ELSE {}]

\* removePlayerLocked: delete from the map, cut the first entry with that
\* id out of the slice, send the cancelled update when the entry has a
\* stream; false when the map does not hold the player
removePlayerLocked(pq, playerID) ==
    IF playerID \notin DOMAIN pq.players
    THEN [removed |-> FALSE, players |-> pq.players, queue |-> pq.queue,
          updates |-> {}]
    ELSE LET S == IndicesOf(pq.queue, playerID)
             i == CHOOSE j \in S : \A k \in S : j <= k
         IN [removed |-> TRUE,
             players |-> [p \in DOMAIN pq.players \ {playerID} |-> pq.players[p]],
             queue |-> IF S = {} THEN pq.queue
                       ELSE SubSeq(pq.queue, 1, i - 1)
                                \o SubSeq(pq.queue, i + 1, Len(pq.queue)),
             updates |-> IF pq.players[playerID].stream
                         THEN {QueueCancelled(pq.players[playerID])}
                         ELSE {}]

\* GetPlayerStatus: the 1-based position of the player, -1 when not queued
GetPlayerStatus(pq, playerID) ==
    IF playerID \notin DOMAIN pq.players \/ IndicesOf(pq.queue, playerID) = {}
    THEN -1
    ELSE CHOOSE j \in IndicesOf(pq.queue, playerID) :
             \A k \in IndicesOf(pq.queue, playerID) : j <= k

\* variant: the player is appended without looking for an earlier entry
EnqueueLocked_NoRemove(pq, playerID, queueID, now) ==
    LET qp == [id |-> playerID, queueID |-> queueID, time |-> now,
               stream |-> FALSE]
    IN [players |-> [p \in DOMAIN pq.players \cup {playerID} |->
                        IF p = playerID THEN qp ELSE pq.players[p]],
        queue |-> Append(pq.queue, qp), updates |-> {}]

\* Enqueue under the lock; the new entry has no stream
EnqueueLocked(pq, playerID, queueID, now) ==
    LET r == removePlayerLocked(pq, playerID)
        qp == [id |-> playerID, queueID |-> queueID, time |-> now,
               stream |-> FALSE]
    IN [players |-> [p \in DOMAIN r.players \cup {playerID} |->
                        IF p = playerID THEN qp ELSE r.players[p]],
        queue |-> Append(r.queue, qp), updates |-> r.updates]

\* variant: the two newest entries are matched
TryMatchLocked_Newest(pq) ==
    IF Len(pq.queue) < 2
    THEN [matched |-> FALSE, players |-> pq.players, queue |-> pq.queue,
          updates |-> {}]
    ELSE LET player1 == pq.queue[Len(pq.queue)]
             player2 == pq.queue[Len(pq.queue) - 1]
             r1 == removePlayerLocked(pq, player1.id)
             r2 == removePlayerLocked(r1, player2.id)
         IN [matched |-> TRUE, first |-> player1, second |-> player2,
             players |-> r2.players, queue |-> r2.queue,
             updates |-> r1.updates \cup r2.updates]

\* TryMatchPlayers under the lock
TryMatchLocked(pq) ==
    IF Len(pq.queue) < 2
    THEN [matched |-> FALSE, players |-> pq.players, queue |-> pq.queue,
          updates |-> {}]
    ELSE LET player1 == pq.queue[1]
             player2 == pq.queue[2]
             r1 == removePlayerLocked(pq, player1.id)
             r2 == removePlayerLocked(r1, player2.id)
         IN [matched |-> TRUE, first |-> player1, second |-> player2,
             players |-> r2.players, queue |-> r2.queue,
             updates |-> r1.updates \cup r2.updates]

InitQueue ==
    /\ mm = NewPlayerQueue
    /\ notif = <<>>
    /\ IdleGames
    /\ gs = NewGameState
    /\ over = FALSE
    /\ moves = 0
    /\ call = NoCall

Enqueue(playerID) ==
    /\ mm.clock < MaxEnqueues
    /\ LET now == mm.clock + 1
           r == EnqueueLocked(mm, playerID, now, now)
       IN mm' = [mm EXCEPT !.players = r.players, !.queue = r.queue,
                           !.clock = now,
                           !.ret = [op |-> "Enqueue", playerId |-> playerID,
                                    queueID |-> now, before |-> mm.queue,
                                    updates |-> r.updates]]
    /\ UNCHANGED <<notif, gamesVars, engineVars>>

\* RemovePlayer, as CancelQueue calls it for the caller's own id
RemovePlayer(playerID) ==
    /\ LET r == removePlayerLocked(mm, playerID)
       IN mm' = [mm EXCEPT !.players = r.players, !.queue = r.queue,
                           !.left = IF playerID \in DOMAIN mm.players
                                    THEN @ \cup {mm.players[playerID].queueID}
                                    ELSE @,
                           !.ret = [op |-> "RemovePlayer", playerId |-> playerID,
                                    removed |-> r.removed, before |-> mm.queue,
                                    updates |-> r.updates]]
    /\ UNCHANGED <<notif, gamesVars, engineVars>>

\* SetPlayerStream: the stream is put on the entry the map holds, which is
\* the entry of the slice; nothing for a player who is not queued
SetPlayerStream(playerID) ==
    /\ playerID \in DOMAIN mm.players
    /\ ~mm.players[playerID].stream
    /\ mm' = [mm EXCEPT !.players[playerID].stream = TRUE,
                        !.queue = [i \in DOMAIN mm.queue |->
                                      IF mm.queue[i] = mm.players[playerID]
                                      THEN [mm.queue[i] EXCEPT !.stream = TRUE]
                                      ELSE mm.queue[i]],
                        !.ret = [op |-> "SetPlayerStream", playerId |-> playerID,
                                 updates |-> {}]]
    /\ UNCHANGED <<notif, gamesVars, engineVars>>

\* one tick of processMatchmaking: TryMatchPlayers, and a createMatch
\* goroutine started for the pair it returned
TryMatchPlayers ==
    /\ LET r == TryMatchLocked(mm)
           pair == IF r.matched THEN <<r.first, r.second>> ELSE <<>>
       IN mm' = [mm EXCEPT !.players = r.players, !.queue = r.queue,
                           !.pending = IF r.matched THEN @ \cup {pair} ELSE @,
                           !.ret = [op |-> "TryMatchPlayers", before |-> mm.queue,
                                    pair |-> pair, updates |-> r.updates]]
    /\ UNCHANGED <<notif, gamesVars, engineVars>>

\* what notifyPlayerMatch puts on the stream of a matched player
GameCreated(player) ==
    IF player.stream
    THEN {[playerId |-> player.id, queueID |-> player.queueID,
           status |-> "GAME_CREATED"]}
    ELSE {}

\* variant: the pair is handed to the games service the other way round
createMatchRequest_Swapped(pair) ==
    [player1Id |-> pair[2].id, player2Id |-> pair[1].id]

\* the CreateGameRequest createMatch builds for a pair
createMatchRequest(pair) ==
    [player1Id |-> pair[1].id, player2Id |-> pair[2].id]

\* createMatch for one pair the matcher took. created: whether the games
\* service created the game. On failure the error is logged and the
\* goroutine returns; on success both players are told on their streams (a
\* failed publication of the match-found event is only logged).
createMatch(pair, created) ==
    /\ pair \in mm.pending
    /\ LET gameReq == createMatchRequest(pair)
       IN mm' = [mm EXCEPT
                    !.pending = @ \ {pair},
                    !.games = IF created
                              THEN @ \cup {[player1Id |-> gameReq.player1Id,
                                            player2Id |-> gameReq.player2Id,
                                            pair |-> pair]}
                              ELSE @,
                    !.ret = [op |-> "createMatch", pair |-> pair,
                             created |-> created, before |-> mm.queue,
                             updates |-> IF created
                                         THEN GameCreated(pair[1])
                                                  \cup GameCreated(pair[2])
                                         ELSE {}]]
    /\ UNCHANGED <<notif, gamesVars, engineVars>>

NextQueue ==
    \/ \E playerID \in QueuePlayers : Enqueue(playerID)
    \/ \E playerID \in QueuePlayers : RemovePlayer(playerID)
    \/ \E playerID \in QueuePlayers : SetPlayerStream(playerID)
    \/ TryMatchPlayers
    \/ \E pair \in mm.pending, created \in BOOLEAN : createMatch(pair, created)

SpecQueue == InitQueue /\ [][NextQueue]_vars



\* C29: matching is first-in-first-out. With two or more players queued,
\* TryMatchPlayers returns the longest-waiting player first and the
\* next-longest-waiting second and removes exactly those two: the others
\* keep their order and their positions go down by two. With fewer than two
\* it returns no pair and leaves the queue as it was.
C29_FirstInFirstOut ==
    mm.ret.op = "TryMatchPlayers" =>
        LET before == mm.ret.before
            pair == mm.ret.pair
        IN IF Len(before) >= 2
           THEN /\ Len(pair) = 2
                /\ pair[1] = before[1] /\ pair[2] = before[2]
                /\ \A i \in DOMAIN before : pair[1].time <= before[i].time
                /\ \A i \in DOMAIN before \ {1} : pair[2].time <= before[i].time
                /\ mm.queue = SubSeq(before, 3, Len(before))
                /\ DOMAIN mm.players = {before[i].id : i \in 3..Len(before)}
                /\ \A i \in 3..Len(before) :
                       GetPlayerStatus(mm, before[i].id) = i - 2
                /\ GetPlayerStatus(mm, pair[1].id) = -1
                /\ GetPlayerStatus(mm, pair[2].id) = -1
           ELSE pair = <<>> /\ mm.queue = before

\* three players waited, the first ever to queue having left or queued again,
\* and the two who waited longest were matched
C29_Witness ==
    /\ mm.ret.op = "TryMatchPlayers"
    /\ Len(mm.ret.before) = 3
    /\ Len(mm.ret.pair) = 2
    /\ Len(mm.queue) = 1
    /\ mm.ret.pair[1].time > 1

\* C30: enqueueing a player who is already queued leaves exactly one entry
\* for that player, carrying the new queue id, and the queue no longer than
\* before; after any sequence of Enqueue, RemovePlayer and TryMatchPlayers
\* the player map and the ordered queue hold the same players, each once.
C30_OneEntryPerPlayer ==
    /\ {mm.queue[i].id : i \in DOMAIN mm.queue} = DOMAIN mm.players
    /\ \A i, j \in DOMAIN mm.queue : mm.queue[i].id = mm.queue[j].id => i = j
    /\ \A i \in DOMAIN mm.queue : mm.players[mm.queue[i].id] = mm.queue[i]
    /\ mm.ret.op = "Enqueue" =>
           /\ Cardinality(IndicesOf(mm.queue, mm.ret.playerId)) = 1
           /\ mm.players[mm.ret.playerId].queueID = mm.ret.queueID
           /\ IndicesOf(mm.ret.before, mm.ret.playerId) # {}
                  => Len(mm.queue) = Len(mm.ret.before)

\* a player queued again while others were waiting
C30_Witness ==
    /\ mm.ret.op = "Enqueue"
    /\ IndicesOf(mm.ret.before, mm.ret.playerId) # {}
    /\ Len(mm.queue) >= 2
    /\ mm.queue[Len(mm.queue)].queueID = mm.ret.queueID

\* the matcher on its own: players queue and cancel, the ticker of
\* processMatchmaking fires every second and every createMatch goroutine
\* runs to its end
NextMatcher ==
    \/ \E playerID \in QueuePlayers : Enqueue(playerID)
    \/ \E playerID \in QueuePlayers : RemovePlayer(playerID)
    \/ TryMatchPlayers
    \/ \E pair \in mm.pending, created \in BOOLEAN : createMatch(pair, created)

SpecMatcher ==
    /\ InitQueue
    /\ [][NextMatcher]_vars
    /\ WF_vars(TryMatchPlayers)
    /\ WF_vars(\E pair \in mm.pending, created \in BOOLEAN :
                   createMatch(pair, created))

\* the entry with queue id q is no longer in the queue
Gone(q) == \A i \in DOMAIN mm.queue : mm.queue[i].queueID # q

\* what a tick of the matcher and a createMatch leave behind: the pair the
\* matcher takes is the two longest-waiting players, in that order, and both
\* are out of the queue; a game created for a pair has the first as
\* participant one and the second as participant two, is the only game of
\* that pair, and the pair's entries are not in the queue
MatchedInOrder ==
    /\ (mm.ret.op = "TryMatchPlayers" /\ Len(mm.ret.before) >= 2) =>
           /\ mm.ret.pair = <<mm.ret.before[1], mm.ret.before[2]>>
           /\ \A i \in DOMAIN mm.ret.before :
                  mm.ret.pair[1].time <= mm.ret.before[i].time
           /\ \A i \in DOMAIN mm.ret.before \ {1} :
                  mm.ret.pair[2].time <= mm.ret.before[i].time
           /\ mm.ret.pair \in mm.pending
           /\ mm.ret.pair[1].id \notin DOMAIN mm.players
           /\ mm.ret.pair[2].id \notin DOMAIN mm.players
    /\ (mm.ret.op = "createMatch" /\ mm.ret.created) =>
           /\ Cardinality({g \in mm.games : g.pair = mm.ret.pair}) = 1
           /\ Gone(mm.ret.pair[1].queueID) /\ Gone(mm.ret.pair[2].queueID)
    /\ \A g \in mm.games :
           /\ g.player1Id = g.pair[1].id
           /\ g.player2Id = g.pair[2].id
           /\ g.pair \notin mm.pending
           /\ \A h \in mm.games : h.pair = g.pair => h = g

\* C31: whenever two or more players are waiting, the matcher eventually
\* takes a pair (unless a cancellation comes first), the pair being the two
\* longest-waiting players, and every pair it took eventually has its
\* createMatch run; when creation succeeds exactly one game is created for
\* the pair, the first as participant one and the second as participant
\* two, and both are out of the queue.
C31_MatcherCreatesGame ==
    /\ []MatchedInOrder
    /\ (Len(mm.queue) >= 2)
           ~> \/ mm.ret.op = "TryMatchPlayers" /\ Len(mm.ret.pair) = 2
              \/ mm.ret.op = "RemovePlayer" /\ mm.ret.removed
    /\ (mm.pending # {}) ~> (mm.ret.op = "createMatch")

\* three players waited, the two who waited longest were matched and their
\* game was created while the third still waits
C31_Witness ==
    /\ mm.ret.op = "createMatch"
    /\ mm.ret.created
    /\ \E g \in mm.games : g.pair = mm.ret.pair /\ g.pair[1].time < g.pair[2].time
    /\ Len(mm.queue) = 1
    /\ mm.queue[1].time > mm.ret.pair[2].time

\* the queue ids of the entries a pair holds
PairQueueIDs(pair) == {pair[i].queueID : i \in DOMAIN pair}

C34_FailedPairStillQueued ==
    (mm.ret.op = "createMatch" /\ ~mm.ret.created) =>
        \A i \in DOMAIN mm.ret.pair : mm.ret.pair[i].id \in DOMAIN mm.players

\* C35: the update "Queue cancelled by player" is put on a player's stream
\* only by a cancel request: not by the matcher taking the player, nor by the
\* player's own re-enqueue.
C35_CancelledOnlyOnCancel ==
    \A u \in mm.ret.updates :
        u.status = "CANCELLED" => mm.ret.op = "RemovePlayer"

\* C33: in every unfinished game state reached from the initial board by
\* accepted moves, the player to move has a pit of their own that is not
\* empty.
C33_MoverHasLegalMove ==
    ~over => \E p \in OwnPits(gs.player) : gs.board[p] > 0

-----------------------------------------------------------------------------
(* cmd/games: the games gRPC server behind the auth interceptor, its calls
   served one after the other, checked under SpecPlay *)

\* the user id the interceptor takes from the caller's bearer token; ""
\* stands for a request without a valid token
UserIds == {"", "p1", "p2"}

\* isExemptMethod: Create is served without a token (matchmaking calls it),
\* Move is not
isExemptMethod(method) == method = "/proto.games.Games/Create"

\* UnaryInterceptor: an exempt method goes to its handler as it came; any
\* other needs a valid token, whose user id is put in the handler's context
UnaryInterceptor(method, userId) ==
    IF isExemptMethod(method) THEN [err |-> FALSE, user_id |-> ""]
    ELSE IF userId = "" THEN [err |-> TRUE, user_id |-> ""]
    ELSE [err |-> FALSE, user_id |-> userId]

InitPlay ==
    /\ storage = NoGames
    /\ pc = [h \in Handlers |-> "idle"]
    /\ loc = [h \in Handlers |-> IdleLoc]
    /\ stream = <<>>
    /\ reply = NoReply
    /\ hist = [calls |-> 0, version |-> 0, accepted |-> {}, twice |-> FALSE,
               deleted |-> FALSE, callers |-> {}, repeat |-> FALSE,
               stale |-> FALSE]
    /\ gs = NewGameState
    /\ over = FALSE
    /\ moves = 0
    /\ call = NoCall
    /\ IdleServices

\* a Move request sent by the authenticated user userId, through the
\* interceptor and Server.Move to its response, Redis and the engine
\* answering: the checks, the MOVE_MADE event, then for a finished result
\* the GAME_OVER event and DeleteGame, else SaveGame. The handler never
\* reads the user id the interceptor put in its context.
SubmitMove(userId, playerId, gameId, pitIndex) ==
    /\ hist.calls < MaxCalls
    /\ hist' = [hist EXCEPT !.calls = @ + 1]
    /\ LET ctx == UnaryInterceptor("/proto.games.Games/Move", userId)
           l == [userId |-> userId, playerId |-> playerId, gameId |-> gameId,
                 pitIndex |-> pitIndex]
           c == MoveChecks(playerId, gameId, pitIndex, storage, FALSE, FALSE)
       IN IF ctx.err
          THEN /\ reply' = [kind |-> "Unauthenticated", call |-> l]
               /\ UNCHANGED <<storage, stream>>
          ELSE IF c.message # ""
          THEN /\ reply' = [kind |-> "Error", call |-> l, message |-> c.message]
               /\ UNCHANGED <<storage, stream>>
          ELSE LET m == l @@ [game |-> c.game, result |-> c.result]
               IN /\ reply' = [kind |-> "MoveResult", call |-> l,
                               result |-> c.result]
                  /\ IF AfterMoveMade(c.result) = "saveGame"
                     THEN /\ stream' = Append(stream, MoveMadeEvent(m))
                          /\ storage' = Set(storage, c.game)
                     ELSE /\ stream' = stream \o <<MoveMadeEvent(m),
                                                   GameOverEvent(m)>>
                          /\ storage' = Del(storage, gameId)
    /\ UNCHANGED <<pc, loc, engineVars, serviceVars>>

NextPlay ==
    \/ \E player1Id \in PlayerIds, player2Id \in PlayerIds,
          gameID \in GeneratedIds, redisFails \in BOOLEAN :
            Create(player1Id, player2Id, gameID, redisFails)
    \/ \E userId \in UserIds, playerId \in PlayerIds, gameId \in GameIds,
          pitIndex \in SubmittedPits :
            SubmitMove(userId, playerId, gameId, pitIndex)

SpecPlay == InitPlay /\ [][NextPlay]_vars

\* C37: every stored game can be advanced by a participant: some caller id
\* passes both the participant check and the turn check for the stored
\* mover, also in a game created with the same id as both participants.
C37_SomeCallerMayMove ==
    \A g \in DOMAIN storage :
        \E playerId \in PlayerIds \ {""} :
            /\ IsPlayerInGame(storage[g], playerId)
            /\ GetPlayerFromID(playerId, storage[g]) = storage[g].state.player

\* C38: a move is applied for player id p only when the authenticated
\* caller's user id is p.
C38_MoveOnlyForCaller ==
    reply.kind = "MoveResult" => reply.call.userId = reply.call.playerId

-----------------------------------------------------------------------------
(* internal/auth: Server.RefreshToken over the refresh tokens kept in Redis,
   checked under SpecRefresh. storage holds the stored refresh tokens: the
   token string (a number here, each generated token being new) mapped to
   its user. Each Redis command group of the handler is one step. *)

\* the user whose Login stored the first refresh token
RefreshUser == "u1"

\* the refresh token Login issued and stored; 0 stands for a string that
\* ValidateRefreshToken rejects
LoginToken == 1

InitRefresh ==
    /\ storage = [t \in {LoginToken} |-> RefreshUser]
    /\ pc = [h \in Handlers |-> "idle"]
    /\ loc = [h \in Handlers |-> IdleLoc]
    /\ stream = <<>>
    /\ reply = NoReply
    /\ hist = [calls |-> 0, issued |-> LoginToken, exchanged |-> <<>>,
               faults |-> FALSE]
    /\ gs = NewGameState
    /\ over = FALSE
    /\ moves = 0
    /\ call = NoCall
    /\ IdleServices

\* RefreshToken from its entry to the generation of the new tokens:
\* ValidateRefreshToken, Storage.GetRefreshToken, GetUserByID,
\* GenerateAccessToken and GenerateRefreshToken
RefreshReceive(h, token, redisFails, userMissing) ==
    /\ pc[h] = "idle"
    /\ \A k \in Handlers : k < h => pc[k] # "idle"
    /\ hist.calls < MaxCalls
    /\ token \in 0..hist.issued
    /\ LET l == [token |-> token]
           refused(message) ==
               /\ reply' = [kind |-> "RefreshTokenResponse", call |-> l,
                            success |-> FALSE, message |-> message]
               /\ hist' = [hist EXCEPT !.calls = @ + 1,
                                       !.faults = @ \/ redisFails]
               /\ UNCHANGED <<pc, loc>>
       IN IF token = 0 THEN refused("Invalid or expired refresh token")
          ELSE IF redisFails \/ token \notin DOMAIN storage
          THEN refused("Refresh token not found")
          ELSE IF userMissing THEN refused("User not found")
          ELSE /\ pc' = [pc EXCEPT ![h] = "deleteRefreshToken"]
               /\ loc' = [loc EXCEPT ![h] = [token |-> token,
                                             newToken |-> hist.issued + 1]]
               /\ hist' = [hist EXCEPT !.calls = @ + 1, !.issued = @ + 1]
               /\ reply' = NoReply
    /\ UNCHANGED <<storage, stream, engineVars, serviceVars>>

\* Storage.DeleteRefreshToken: the token is looked up and its keys deleted;
\* an error (token gone, Redis failing) is returned and changes nothing
DeleteRefreshToken(store, token, redisFails) ==
    IF redisFails \/ token \notin DOMAIN store THEN store
    ELSE [t \in DOMAIN store \ {token} |-> store[t]]

\* "Delete old refresh token": an error is logged and the handler goes on
RefreshDelete(h, redisFails) ==
    /\ pc[h] = "deleteRefreshToken"
    /\ storage' = DeleteRefreshToken(storage, loc[h].token, redisFails)
    /\ pc' = [pc EXCEPT ![h] = "storeRefreshToken"]
    /\ hist' = [hist EXCEPT !.faults = @ \/ redisFails]
    /\ reply' = NoReply
    /\ UNCHANGED <<loc, stream, engineVars, serviceVars>>

\* "Store new refresh token" (an error is logged and the handler goes on)
\* and the response with the new tokens
RefreshStore(h, redisFails) ==
    /\ pc[h] = "storeRefreshToken"
    /\ storage' = IF redisFails THEN storage
                  ELSE [t \in DOMAIN storage \cup {loc[h].newToken} |->
                           IF t = loc[h].newToken THEN RefreshUser
                           ELSE storage[t]]
    /\ reply' = [kind |-> "RefreshTokenResponse", call |-> [token |-> loc[h].token],
                 success |-> TRUE, refreshToken |-> loc[h].newToken]
    /\ hist' = [hist EXCEPT !.exchanged = Append(@, loc[h].token),
                            !.faults = @ \/ redisFails]
    /\ pc' = [pc EXCEPT ![h] = "idle"]
    /\ loc' = [loc EXCEPT ![h] = IdleLoc]
    /\ UNCHANGED <<stream, engineVars, serviceVars>>

NextRefresh ==
    \E h \in Handlers :
        \/ \E token \in 0..(MaxCalls + 1), redisFails \in BOOLEAN,
              userMissing \in BOOLEAN :
                RefreshReceive(h, token, redisFails, userMissing)
        \/ \E redisFails \in BOOLEAN : RefreshDelete(h, redisFails)
        \/ \E redisFails \in BOOLEAN : RefreshStore(h, redisFails)

SpecRefresh == InitRefresh /\ [][NextRefresh]_vars

\* C39: a refresh token is exchanged successfully at most once: no two
\* successful RefreshToken calls, concurrent or one after the other,
\* presented the same token.
C39_ExchangedOnce ==
    \A i, j \in DOMAIN hist.exchanged :
        hist.exchanged[i] = hist.exchanged[j] => i = j

====
